---- MODULE Spec2Model ----
(***************************************************************************)
(* The locking subsystem of FileStorage (src/filestorage.go): Lock,        *)
(* Unlock, UnlockAllObtained and fileStorageWaiter.Wait, run by several    *)
(* goroutines of several processes that share one storage root.            *)
(*                                                                         *)
(* A process is one FileStorage instance in one operating-system process;  *)
(* a thread is a goroutine that calls the instance's methods.  Every       *)
(* system call (MkdirAll, OpenFile, Stat, Remove), every blocking point    *)
(* (wg.Wait, time.Sleep, the mutex) and every mutex-protected section is   *)
(* one step.  Time is a global clock counted in ticks that are at least as *)
(* long as the one-second poll interval, so a sleep takes less than a tick *)
(* and the clock advances on its own (Tick).                               *)
(***************************************************************************)
EXTENDS Integers, Sequences, FiniteSets, TLC

\* ------------------------------------------------------------------ bounds
NumProcs   == 2     \* processes sharing the storage root
NumThreads == 3     \* goroutines, dealt round-robin to the processes
NumKeys    == 2     \* lock keys
MaxTime    == 2     \* the clock stops here
MaxWaiters == 3     \* fileStorageWaiter objects ever allocated
MaxCalls   == 4     \* calls of Lock, Unlock and UnlockAllObtained ever made (Spec)
MaxCallsKeys   == 3 \* the same, when every key is used (SpecKeys)
MaxCallsPaired == 5 \* the same, when the callers pair their calls (SpecPaired)

\* staleLockDuration, in ticks
staleLockDuration == 1

Procs   == 1..NumProcs
Threads == 1..NumThreads
Keys    == 1..NumKeys
ProcOf(t) == ((t - 1) % NumProcs) + 1
ThreadsOf(p) == {t \in Threads : ProcOf(t) = p}

NoFile   == [exists |-> FALSE]
NoWaiter == 0
NoThread == 0

VARIABLES
    now,        \* the clock
    marker,     \* marker[k]: the lock file of key k, or NoFile
    waiters,    \* every fileStorageWaiter allocated so far, by id
    table,      \* table[p][k]: fs.fileStorageNameLocks[k] of process p (a waiter id)
    mu,         \* mu[p]: the thread holding fs.fileStorageNameLocksMu of p
    pc,         \* pc[t]: where thread t is
    key,        \* key[t]: the key of the call thread t is in, or was in last
    fw,         \* fw[t]: the local variable fw of the call thread t is in
    start,      \* start[t]: the local variable start of Wait
    inUA,       \* inUA[t]: thread t is in UnlockAllObtained
    uaRange,    \* uaRange[t]: the entries (waiter ids) in the map when t's range loop began
    uaHeld,     \* uaHeld[t]: those of them that were locks held at that moment
    ret,        \* ret[t]: what the last call of t returned; "none" during a call
    calls       \* the calls made so far

vars == <<now, marker, waiters, table, mu, pc, key, fw, start, inUA, uaRange, uaHeld, ret, calls>>
uaVars == <<inUA, uaRange, uaHeld>>

\* ------------------------------------------------------------- primitives

\* (a variant: O_CREATE without O_EXCL opens the file that is there)
CreateSucceedsAlways(m) == TRUE

\* os.OpenFile(name, O_CREATE|O_EXCL): succeeds only when the file is absent.
CreateExclSucceeds(m) == ~m.exists

\* The marker after a successful OpenFile with O_CREATE by waiter w at time t:
\* a new file stamped t, or (without O_EXCL) the existing file, opened.
Created(m, w, t) ==
    IF m.exists THEN [m EXCEPT !.by = @ \cup {w}]
    ELSE [exists |-> TRUE, mtime |-> t, by |-> {w}]

\* (a variant: the comparison is taken the wrong way round)
fileLockIsStaleInverted(m, t) ==
    IF ~m.exists THEN TRUE ELSE t - m.mtime < staleLockDuration

\* time.Since(info.ModTime()) > staleLockDuration; a nil info is stale.
fileLockIsStale(m, t) ==
    IF ~m.exists THEN TRUE ELSE t - m.mtime > staleLockDuration

\* (a variant: the loop goes on while the elapsed time is at most the threshold)
WaitLoopConditionInclusive(s, t) == t - s <= staleLockDuration

\* for time.Since(start) < staleLockDuration
WaitLoopCondition(s, t) == t - s < staleLockDuration

\* fw, ok := fs.fileStorageNameLocks[key]
LookupOk(p, k) == table[p][k] # NoWaiter

\* &fileStorageWaiter{key, filename, wg}; fw.wg.Add(1)
NewWaiter(p, k, t) ==
    [proc |-> p, key |-> k, owner |-> t, wg |-> 1,
     sig |-> "none",      \* what called wg.Done() first: "unlock" or "error"
     won |-> FALSE,       \* the create-exclusive of its marker succeeded
     rmfail |-> FALSE]    \* the os.Remove of its Unlock failed and left the marker

\* (a variant: Wait does not block on the WaitGroup)
WgWaitReturnsAtOnce(w) == TRUE

\* wg.Wait() returns when the counter is zero
WgWaitReturns(w) == waiters[w].wg = 0

\* fw.wg.Done() on waiter w, called from `by` ("unlock" or "error")
WgDone(w, by) ==
    [waiters EXCEPT ![w].wg = @ - 1, ![w].sig = IF @ = "none" THEN by ELSE @]

\* wg.Done() panics when the counter would go negative
WgDonePanics(w) == waiters[w].wg <= 0

\* os.Remove(name): the file is gone afterwards, unless the removal failed
Removed(m, failed) == IF failed THEN m ELSE NoFile

\* a return to the caller of Lock or Unlock
Return(t, r) ==
    /\ pc' = [pc EXCEPT ![t] = "idle"]
    /\ ret' = [ret EXCEPT ![t] = r]
    /\ fw' = [fw EXCEPT ![t] = NoWaiter]
    /\ start' = [start EXCEPT ![t] = 0]

\* an unrecovered panic ends the whole process
Panic(p) ==
    /\ pc' = [t \in Threads |-> IF ProcOf(t) = p THEN "panicked" ELSE pc[t]]
    /\ mu' = [mu EXCEPT ![p] = NoThread]
    /\ UNCHANGED <<fw, start, ret>>

Init ==
    /\ now = 0
    /\ marker = [k \in Keys |-> NoFile]
    /\ waiters = <<>>
    /\ table = [p \in Procs |-> [k \in Keys |-> NoWaiter]]
    /\ mu = [p \in Procs |-> NoThread]
    /\ pc = [t \in Threads |-> "idle"]
    /\ key = [t \in Threads |-> 1]
    /\ fw = [t \in Threads |-> NoWaiter]
    /\ start = [t \in Threads |-> 0]
    /\ inUA = [t \in Threads |-> FALSE]
    /\ uaRange = [t \in Threads |-> {}]
    /\ uaHeld = [t \in Threads |-> {}]
    /\ ret = [t \in Threads |-> "none"]
    /\ calls = 0

\* time passes
Tick ==
    /\ now < MaxTime
    /\ now' = now + 1
    /\ UNCHANGED <<marker, waiters, table, mu, pc, key, fw, start, uaVars, ret, calls>>

\* --------------------------------------------------------------- Lock

\* Lock, lines 161-175: the key has a waiter; attach to it and call fw.Wait().
LockJoin(t, k) ==
    /\ pc[t] = "idle"
    /\ calls' = calls + 1
    /\ mu[ProcOf(t)] = NoThread
    /\ LookupOk(ProcOf(t), k)
    /\ pc' = [pc EXCEPT ![t] = "wait_start"]
    /\ key' = [key EXCEPT ![t] = k]
    /\ fw' = [fw EXCEPT ![t] = table[ProcOf(t)][k]]
    /\ ret' = [ret EXCEPT ![t] = "none"]
    /\ UNCHANGED <<now, marker, waiters, table, mu, start, uaVars>>

\* Lock, lines 161-188: no waiter for the key; make one, register it and enter
\* the acquisition loop.
LockRegister(t, k) ==
    /\ pc[t] = "idle"
    /\ calls' = calls + 1
    /\ mu[ProcOf(t)] = NoThread
    /\ ~LookupOk(ProcOf(t), k)
    /\ Len(waiters) < MaxWaiters
    /\ waiters' = Append(waiters, NewWaiter(ProcOf(t), k, t))
    /\ table' = [table EXCEPT ![ProcOf(t)][k] = Len(waiters) + 1]
    /\ pc' = [pc EXCEPT ![t] = "mkdir"]
    /\ key' = [key EXCEPT ![t] = k]
    /\ fw' = [fw EXCEPT ![t] = Len(waiters) + 1]
    /\ ret' = [ret EXCEPT ![t] = "none"]
    /\ UNCHANGED <<now, marker, mu, start, uaVars>>

\* Lock, line 192: os.MkdirAll succeeded.
LockMkdirOk(t) ==
    /\ pc[t] = "mkdir"
    /\ pc' = [pc EXCEPT ![t] = "create"]
    /\ UNCHANGED <<now, marker, waiters, table, mu, key, fw, start, uaVars, ret, calls>>

\* Lock, lines 192-194: os.MkdirAll failed; return err.
LockMkdirFail(t) ==
    /\ pc[t] = "mkdir"
    /\ Return(t, "lock_err")
    /\ UNCHANGED <<now, marker, waiters, table, mu, key, uaVars, calls>>

\* Lock, lines 198-203: the create-exclusive succeeded; return nil.
LockCreateOk(t) ==
    /\ pc[t] = "create"
    /\ CreateExclSucceeds(marker[key[t]])
    /\ marker' = [marker EXCEPT ![key[t]] = Created(@, fw[t], now)]
    /\ waiters' = [waiters EXCEPT ![fw[t]].won = TRUE]
    /\ Return(t, "lock_ok")
    /\ UNCHANGED <<now, table, mu, key, uaVars, calls>>

\* Lock, lines 198, 204-206: the marker exists; stat it next.
LockCreateExists(t) ==
    /\ pc[t] = "create"
    /\ ~CreateExclSucceeds(marker[key[t]])
    /\ pc' = [pc EXCEPT ![t] = "stat"]
    /\ UNCHANGED <<now, marker, waiters, table, mu, key, fw, start, uaVars, ret, calls>>

\* (a variant: the error path also deletes the Waiter from the table)
LockCreateErrorCleans(t) ==
    /\ pc[t] = "create"
    /\ ~WgDonePanics(fw[t])
    /\ waiters' = WgDone(fw[t], "error")
    /\ table' = [table EXCEPT ![ProcOf(t)][key[t]] = NoWaiter]
    /\ Return(t, "lock_err")
    /\ UNCHANGED <<now, marker, mu, key, uaVars, calls>>

\* Lock, lines 216-221: OpenFile failed otherwise; fw.wg.Done() and return err.
LockCreateError(t) ==
    /\ pc[t] = "create"
    /\ ~WgDonePanics(fw[t])
    /\ waiters' = WgDone(fw[t], "error")
    /\ Return(t, "lock_err")
    /\ UNCHANGED <<now, marker, table, mu, key, uaVars, calls>>

\* Lock, line 220: fw.wg.Done() after an Unlock already called it: panic.
LockCreateErrorPanic(t) ==
    /\ pc[t] = "create"
    /\ WgDonePanics(fw[t])
    /\ waiters' = WgDone(fw[t], "error")
    /\ Panic(ProcOf(t))
    /\ UNCHANGED <<now, marker, table, key, uaVars, calls>>

\* (a variant: a failed os.Stat makes Lock return the error)
LockStatErrorReturns(t) ==
    /\ pc[t] = "stat"
    /\ Return(t, "lock_err")
    /\ UNCHANGED <<now, marker, waiters, table, mu, key, uaVars, calls>>

\* Lock, lines 206-208: os.Stat failed (the marker is gone, or any other
\* failure); the empty case: go round the loop at once.
LockStatError(t) ==
    /\ pc[t] = "stat"
    /\ pc' = [pc EXCEPT ![t] = "mkdir"]
    /\ UNCHANGED <<now, marker, waiters, table, mu, key, fw, start, uaVars, ret, calls>>

\* Lock, lines 206, 209-211: the marker is stale; remove it next.
LockStatStale(t) ==
    /\ pc[t] = "stat"
    /\ marker[key[t]].exists
    /\ fileLockIsStale(marker[key[t]], now)
    /\ pc' = [pc EXCEPT ![t] = "remove"]
    /\ UNCHANGED <<now, marker, waiters, table, mu, key, fw, start, uaVars, ret, calls>>

\* Lock, lines 206, 213-214: the marker is fresh; sleep next.
LockStatFresh(t) ==
    /\ pc[t] = "stat"
    /\ marker[key[t]].exists
    /\ ~fileLockIsStale(marker[key[t]], now)
    /\ pc' = [pc EXCEPT ![t] = "sleep"]
    /\ UNCHANGED <<now, marker, waiters, table, mu, key, fw, start, uaVars, ret, calls>>

\* Lock, line 212: os.Remove(fw.filename) removes whatever marker is there
\* now (or fails, which is ignored), then round the loop.
LockRemoveStale(t) ==
    /\ pc[t] = "remove"
    /\ \E failed \in BOOLEAN :
          marker' = [marker EXCEPT ![key[t]] = Removed(@, failed)]
    /\ pc' = [pc EXCEPT ![t] = "mkdir"]
    /\ UNCHANGED <<now, waiters, table, mu, key, fw, start, uaVars, ret, calls>>

\* Lock, line 214: time.Sleep(1 * time.Second) is over.
LockSleep(t) ==
    /\ pc[t] = "sleep"
    /\ pc' = [pc EXCEPT ![t] = "mkdir"]
    /\ UNCHANGED <<now, marker, waiters, table, mu, key, fw, start, uaVars, ret, calls>>

\* --------------------------------------------------------------- Wait

\* Wait, line 292: start := time.Now()
WaitStart(t) ==
    /\ pc[t] = "wait_start"
    /\ start' = [start EXCEPT ![t] = now]
    /\ pc' = [pc EXCEPT ![t] = "wait_wg"]
    /\ UNCHANGED <<now, marker, waiters, table, mu, key, fw, uaVars, ret, calls>>

\* Wait, line 293: fw.wg.Wait() returns.
WaitWg(t) ==
    /\ pc[t] = "wait_wg"
    /\ WgWaitReturns(fw[t])
    /\ pc' = [pc EXCEPT ![t] = "wait_loop"]
    /\ UNCHANGED <<now, marker, waiters, table, mu, key, fw, start, uaVars, ret, calls>>

\* Wait, line 294: the loop condition holds; stat next.
WaitLoopEnter(t) ==
    /\ pc[t] = "wait_loop"
    /\ WaitLoopCondition(start[t], now)
    /\ pc' = [pc EXCEPT ![t] = "wait_stat"]
    /\ UNCHANGED <<now, marker, waiters, table, mu, key, fw, start, uaVars, ret, calls>>

\* Wait, lines 294, 304 and Lock, line 174: the loop condition fails; Wait
\* returns and Lock returns nil.
WaitLoopExit(t) ==
    /\ pc[t] = "wait_loop"
    /\ ~WaitLoopCondition(start[t], now)
    /\ Return(t, "lock_ok")
    /\ UNCHANGED <<now, marker, waiters, table, mu, key, uaVars, calls>>

\* Wait, lines 295-298 and Lock, line 174: os.Stat failed (the marker is gone,
\* or any other failure); Wait returns and Lock returns nil.
WaitStatError(t) ==
    /\ pc[t] = "wait_stat"
    /\ Return(t, "lock_ok")
    /\ UNCHANGED <<now, marker, waiters, table, mu, key, uaVars, calls>>

\* Wait, lines 299-301 and Lock, line 174: the marker is stale.
WaitStatStale(t) ==
    /\ pc[t] = "wait_stat"
    /\ marker[key[t]].exists
    /\ fileLockIsStale(marker[key[t]], now)
    /\ Return(t, "lock_ok")
    /\ UNCHANGED <<now, marker, waiters, table, mu, key, uaVars, calls>>

\* Wait, lines 299, 302: the marker is fresh; sleep next.
WaitStatFresh(t) ==
    /\ pc[t] = "wait_stat"
    /\ marker[key[t]].exists
    /\ ~fileLockIsStale(marker[key[t]], now)
    /\ pc' = [pc EXCEPT ![t] = "wait_sleep"]
    /\ UNCHANGED <<now, marker, waiters, table, mu, key, fw, start, uaVars, ret, calls>>

\* Wait, line 302: time.Sleep(1 * time.Second) is over.
WaitSleep(t) ==
    /\ pc[t] = "wait_sleep"
    /\ pc' = [pc EXCEPT ![t] = "wait_loop"]
    /\ UNCHANGED <<now, marker, waiters, table, mu, key, fw, start, uaVars, ret, calls>>

\* ------------------------------------------------------------- Unlock

\* (a variant: the marker is removed before the table is looked up)
UnlockNotHeldAtRemoves(t, k, from) ==
    /\ pc[t] = from
    /\ calls' = IF inUA[t] THEN calls ELSE calls + 1
    /\ mu[ProcOf(t)] = NoThread
    /\ ~LookupOk(ProcOf(t), k)
    /\ marker' = [marker EXCEPT ![k] = NoFile]
    /\ key' = [key EXCEPT ![t] = k]
    /\ IF inUA[t]
       THEN /\ pc' = [pc EXCEPT ![t] = "ua_range"]
            /\ UNCHANGED <<fw, start, ret>>
       ELSE Return(t, "unlock_notheld")
    /\ UNCHANGED <<now, waiters, table, mu, uaVars>>

\* Unlock, lines 228-234, called for key k from pc `from`: no waiter for the
\* key; the error is returned (to UnlockAllObtained, which logs it).
UnlockNotHeldAt(t, k, from) ==
    /\ pc[t] = from
    /\ calls' = IF inUA[t] THEN calls ELSE calls + 1
    /\ mu[ProcOf(t)] = NoThread
    /\ ~LookupOk(ProcOf(t), k)
    /\ key' = [key EXCEPT ![t] = k]
    /\ IF inUA[t]
       THEN /\ pc' = [pc EXCEPT ![t] = "ua_range"]
            /\ UNCHANGED <<fw, start, ret>>
       ELSE Return(t, "unlock_notheld")
    /\ UNCHANGED <<now, marker, waiters, table, mu, uaVars>>

\* Unlock, lines 228-231: the key has a waiter; the mutex stays held.
UnlockBeginAt(t, k, from) ==
    /\ pc[t] = from
    /\ calls' = IF inUA[t] THEN calls ELSE calls + 1
    /\ mu[ProcOf(t)] = NoThread
    /\ LookupOk(ProcOf(t), k)
    /\ mu' = [mu EXCEPT ![ProcOf(t)] = t]
    /\ key' = [key EXCEPT ![t] = k]
    /\ fw' = [fw EXCEPT ![t] = table[ProcOf(t)][k]]
    /\ pc' = [pc EXCEPT ![t] = "unlock_remove"]
    /\ ret' = [ret EXCEPT ![t] = "none"]
    /\ UNCHANGED <<now, marker, waiters, table, start, uaVars>>

\* a caller calls Unlock(k)
UnlockNotHeld(t, k) == ~inUA[t] /\ UnlockNotHeldAt(t, k, "idle")
UnlockBegin(t, k) == ~inUA[t] /\ UnlockBeginAt(t, k, "idle")

\* Unlock, line 237: os.Remove(fw.filename); its error is dropped.
UnlockRemove(t) ==
    /\ pc[t] = "unlock_remove"
    /\ \E failed \in BOOLEAN :
          /\ marker' = [marker EXCEPT ![key[t]] = Removed(@, failed)]
          /\ waiters' = [waiters EXCEPT ![fw[t]].rmfail = failed /\ marker[key[t]].exists]
    /\ pc' = [pc EXCEPT ![t] = "unlock_done"]
    /\ UNCHANGED <<now, table, mu, key, fw, start, uaVars, ret, calls>>

\* Unlock, lines 240-243: fw.wg.Done(), delete the table entry, release the
\* mutex and return nil.
UnlockDone(t) ==
    /\ pc[t] = "unlock_done"
    /\ ~WgDonePanics(fw[t])
    /\ waiters' = WgDone(fw[t], "unlock")
    /\ table' = [table EXCEPT ![ProcOf(t)][key[t]] = NoWaiter]
    /\ mu' = [mu EXCEPT ![ProcOf(t)] = NoThread]
    /\ IF inUA[t]
       THEN /\ pc' = [pc EXCEPT ![t] = "ua_range"]
            /\ fw' = [fw EXCEPT ![t] = NoWaiter]
            /\ UNCHANGED <<start, ret>>
       ELSE Return(t, "unlock_ok")
    /\ UNCHANGED <<now, marker, key, uaVars, calls>>

\* Unlock, line 240: fw.wg.Done() on a counter that is already zero: panic.
UnlockDonePanic(t) ==
    /\ pc[t] = "unlock_done"
    /\ WgDonePanics(fw[t])
    /\ waiters' = WgDone(fw[t], "unlock")
    /\ Panic(ProcOf(t))
    /\ UNCHANGED <<now, marker, table, key, uaVars, calls>>

\* -------------------------------------------------- UnlockAllObtained

\* The entries of fs.fileStorageNameLocks of process p.
Entries(p) == {table[p][k] : k \in Keys} \ {NoWaiter}

\* Waiter w stands for a lock that is held: its Lock has created the marker
\* and returned nil, and no Unlock is releasing it.
Held(w) ==
    /\ waiters[w].won
    /\ ~\E t \in Threads : pc[t] \in {"unlock_remove", "unlock_done"} /\ fw[t] = w

\* UnlockAllObtained, lines 248-252: the range loop begins.
UACall(t) ==
    /\ pc[t] = "idle"
    /\ calls' = calls + 1
    /\ pc' = [pc EXCEPT ![t] = "ua_range"]
    /\ inUA' = [inUA EXCEPT ![t] = TRUE]
    /\ uaRange' = [uaRange EXCEPT ![t] = Entries(ProcOf(t))]
    /\ uaHeld' = [uaHeld EXCEPT ![t] = {w \in Entries(ProcOf(t)) : Held(w)}]
    /\ ret' = [ret EXCEPT ![t] = "none"]
    /\ UNCHANGED <<now, marker, waiters, table, mu, key, fw, start>>

\* UnlockAllObtained, lines 252-253: the range yields an entry of the map as
\* it is now (read without the mutex); fs.Unlock(fw.key) is called next.
UARangeNext(t, k) ==
    /\ pc[t] = "ua_range"
    /\ LookupOk(ProcOf(t), k)
    /\ key' = [key EXCEPT ![t] = waiters[table[ProcOf(t)][k]].key]
    /\ pc' = [pc EXCEPT ![t] = "ua_unlock"]
    /\ UNCHANGED <<now, marker, waiters, table, mu, fw, start, uaVars, ret, calls>>

\* UnlockAllObtained, line 253: the call of fs.Unlock(fw.key).
UAUnlockNotHeld(t) == inUA[t] /\ UnlockNotHeldAt(t, key[t], "ua_unlock")
UAUnlockBegin(t) == inUA[t] /\ UnlockBeginAt(t, key[t], "ua_unlock")

\* (a variant: the loop stops at the first pass)
RangeEndsAtOnce(p, first) == TRUE

\* The range may stop once every entry that was in the map when it began has
\* been yielded or deleted; an entry added meanwhile may be skipped.
RangeMayEnd(p, first) ==
    \A k \in Keys : LookupOk(p, k) => table[p][k] \notin first

\* UnlockAllObtained, lines 252, 257-258: the range is over; return.
UARangeEnd(t) ==
    /\ pc[t] = "ua_range"
    /\ RangeMayEnd(ProcOf(t), uaRange[t])
    /\ pc' = [pc EXCEPT ![t] = "idle"]
    /\ ret' = [ret EXCEPT ![t] = "ua_done"]
    /\ inUA' = [inUA EXCEPT ![t] = FALSE]
    /\ uaRange' = [uaRange EXCEPT ![t] = {}]
    /\ uaHeld' = [uaHeld EXCEPT ![t] = {}]
    /\ UNCHANGED <<now, marker, waiters, table, mu, key, fw, start, calls>>

\* Another goroutine of the process is inside Unlock, about to delete from
\* the map that t's range loop reads without the mutex.
TableWriteRaces(t) ==
    \E u \in ThreadsOf(ProcOf(t)) : u # t /\ pc[u] = "unlock_done"

\* UnlockAllObtained, line 253: the unsynchronized range meets a concurrent
\* delete; the runtime may detect it ("concurrent map iteration and map
\* write"), which is fatal to the process.
UARangeRace(t) ==
    /\ pc[t] = "ua_range"
    /\ TableWriteRaces(t)
    /\ Panic(ProcOf(t))
    /\ UNCHANGED <<now, marker, waiters, table, key, uaVars, calls>>

\* ----------------------------------------------------- specification

LockStep(t) ==
    \/ LockMkdirOk(t) \/ LockMkdirFail(t)
    \/ LockCreateOk(t) \/ LockCreateExists(t)
    \/ LockCreateError(t) \/ LockCreateErrorPanic(t)
    \/ LockStatError(t) \/ LockStatStale(t) \/ LockStatFresh(t)
    \/ LockRemoveStale(t) \/ LockSleep(t)

WaitStep(t) ==
    \/ WaitStart(t) \/ WaitWg(t) \/ WaitLoopEnter(t) \/ WaitLoopExit(t)
    \/ WaitStatError(t) \/ WaitStatStale(t) \/ WaitStatFresh(t) \/ WaitSleep(t)

UnlockStep(t) ==
    \/ UnlockRemove(t) \/ UnlockDone(t) \/ UnlockDonePanic(t)

UAStep(t) ==
    \/ UAUnlockNotHeld(t) \/ UAUnlockBegin(t) \/ UARangeEnd(t) \/ UARangeRace(t)
    \/ \E k \in Keys : UARangeNext(t, k)

\* The calls the callers in T make on the keys in K.
Call(T, K) ==
    \/ \E t \in T, k \in K : LockJoin(t, k)
    \/ \E t \in T, k \in K : LockRegister(t, k)
    \/ \E t \in T, k \in K : UnlockNotHeld(t, k)
    \/ \E t \in T, k \in K : UnlockBegin(t, k)
    \/ \E t \in T : UACall(t)

\* One key, contended by every thread of every process.
ContendedKeys == {1}

Next ==
    \/ Tick
    \/ calls < MaxCalls /\ Call(Threads, ContendedKeys)
    \/ \E t \in Threads : LockStep(t) \/ WaitStep(t) \/ UnlockStep(t) \/ UAStep(t)

Spec == Init /\ [][Next]_vars

\* Every key, used by the threads of one process.
NextKeys ==
    \/ Tick
    \/ calls < MaxCallsKeys /\ Call(ThreadsOf(1), Keys)
    \/ \E t \in Threads : LockStep(t) \/ WaitStep(t) \/ UnlockStep(t) \/ UAStep(t)

SpecKeys == Init /\ [][NextKeys]_vars

\* Thread t's last call was a Lock(k) that returned nil.
Holding(t, k) == pc[t] = "idle" /\ ret[t] = "lock_ok" /\ key[t] = k

\* Callers that pair their calls: Lock(k), and once it has returned nil,
\* Unlock(k); nobody calls UnlockAllObtained.
CallPaired(T, K) ==
    \/ \E t \in T, k \in K : ~Holding(t, k) /\ LockJoin(t, k)
    \/ \E t \in T, k \in K : ~Holding(t, k) /\ LockRegister(t, k)
    \/ \E t \in T, k \in K : Holding(t, k) /\ UnlockNotHeld(t, k)
    \/ \E t \in T, k \in K : Holding(t, k) /\ UnlockBegin(t, k)

NextPaired ==
    \/ Tick
    \/ calls < MaxCallsPaired /\ CallPaired(Threads, ContendedKeys)
    \/ \E t \in Threads : LockStep(t) \/ WaitStep(t) \/ UnlockStep(t)

SpecPaired == Init /\ [][NextPaired]_vars

\* ------------------------------------------------------------- claims

\* C1: mutual exclusion.  Two callers whose Lock(k) both returned nil, and
\* neither of which has called Unlock(k) since, can exist only once a marker
\* can have become stale, that is, once the clock has passed the staleness
\* threshold.
C1_MutualExclusion ==
    \A k \in Keys : \A t, u \in Threads :
        (t # u /\ Holding(t, k) /\ Holding(u, k)) => now > staleLockDuration

\* ---- C2

WaiterIds == 1..Len(waiters)

\* Some Unlock is releasing waiter w.
Releasing(w) ==
    \E t \in Threads : pc[t] \in {"unlock_remove", "unlock_done"} /\ fw[t] = w

\* Process p has won the create-exclusive for key k and has not released it.
HoldsMarker(p, k) ==
    \E w \in WaiterIds :
        /\ waiters[w].proc = p /\ waiters[w].key = k /\ waiters[w].won
        /\ table[p][k] = w /\ ~Releasing(w)

\* ... and the marker it created is still the file on disk.
HoldsLiveMarker(p, k) ==
    \E w \in WaiterIds :
        /\ waiters[w].proc = p /\ waiters[w].key = k /\ waiters[w].won
        /\ table[p][k] = w /\ ~Releasing(w)
        /\ marker[k].exists /\ w \in marker[k].by

\* C2 as stated: for each key at most one process has won the create-exclusive
\* in Lock and has not yet released it.
C2_OneHolder ==
    \A k \in Keys : \A p, q \in Procs :
        (HoldsMarker(p, k) /\ HoldsMarker(q, k)) => p = q

\* C2 as amended: for each key at most one process has won the
\* create-exclusive, has not released it and still has its marker on disk.
C2_OneLiveHolder ==
    \A k \in Keys : \A p, q \in Procs :
        (HoldsLiveMarker(p, k) /\ HoldsLiveMarker(q, k)) => p = q

\* A contender holds the marker it created after reclaiming the stale marker
\* of a process that has not released it.
C2_Witness ==
    \E k \in Keys : \E p, q \in Procs :
        p # q /\ HoldsLiveMarker(q, k) /\ HoldsMarker(p, k) /\ ~HoldsLiveMarker(p, k)

\* ---- C3

AcqPcs == {"mkdir", "create", "stat", "remove", "sleep"}
PastWg == {"wait_loop", "wait_stat", "wait_sleep"}

\* Of the calls of Lock(k) in one process that are in the acquisition loop at
\* the same time, a later one registered its Waiter only after an Unlock(k)
\* had released and removed the Waiter of the earlier one.
OneAcquirer ==
    \A t, u \in Threads :
        (/\ ProcOf(t) = ProcOf(u) /\ key[t] = key[u]
         /\ pc[t] \in AcqPcs /\ pc[u] \in AcqPcs /\ fw[t] < fw[u])
        => /\ waiters[fw[t]].sig = "unlock"
           /\ table[ProcOf(t)][key[t]] # fw[t]

\* A caller in the acquisition loop registered the Waiter it works on, and a
\* caller that attached to a Waiter is never in the acquisition loop.
OwnerAcquires ==
    \A t \in Threads :
        /\ pc[t] \in AcqPcs => waiters[fw[t]].owner = t
        /\ pc[t] \in PastWg \cup {"wait_start", "wait_wg"} =>
               /\ waiters[fw[t]].proc = ProcOf(t)
               /\ waiters[fw[t]].key = key[t]

UnlockCalled(t, k) ==
    \/ UnlockNotHeld(t, k) \/ UnlockBegin(t, k)
    \/ key[t] = k /\ (UAUnlockNotHeld(t) \/ UAUnlockBegin(t))

\* C4: an Unlock(k) called when the table has no entry for k returns the
\* "not held" error and changes no marker, no Waiter and no table.
C4_NotHeldNoEffect ==
    [][\A t \in Threads, k \in Keys :
          (UnlockCalled(t, k) /\ table[ProcOf(t)][k] = NoWaiter)
          => /\ UNCHANGED <<marker, waiters, table>>
             /\ IF inUA[t] THEN pc'[t] = "ua_range"
                ELSE pc'[t] = "idle" /\ ret'[t] = "unlock_notheld"]_vars

\* An Unlock(k) has returned "not held" and the marker of k, created by
\* another process, is still there.
C4_Witness ==
    \E t \in Threads :
        /\ pc[t] = "idle" /\ ret[t] = "unlock_notheld"
        /\ marker[key[t]].exists
        /\ table[ProcOf(t)][key[t]] = NoWaiter

\* ---- C5

\* A step in which UnlockAllObtained returns to thread t.
UAReturns(t) == pc[t] = "ua_range" /\ pc'[t] = "idle"

\* The locks the process held when t called UnlockAllObtained.
HeldAtCall(t) == uaHeld[t]

UnlockReturnsNil(t) ==
    pc[t] = "unlock_done" /\ pc'[t] = "idle" /\ ret'[t] = "unlock_ok"

\* C6: round trip.  When the Unlock(k) of the caller whose Lock(k) created
\* the marker returns nil, the table has no entry for k and the marker that
\* Lock created is gone.
C6_RoundTrip ==
    [][\A t \in Threads :
          (UnlockReturnsNil(t) /\ waiters[fw[t]].owner = t /\ waiters[fw[t]].won)
          => /\ table'[ProcOf(t)][key[t]] = NoWaiter
             /\ ~(marker'[key[t]].exists /\ fw[t] \in marker'[key[t]].by)]_vars

\* ---- C7

LockReturnsError(t) == pc[t] # "idle" /\ pc'[t] = "idle" /\ ret'[t] = "lock_err"

\* C8 as stated: neither a failed MkdirAll nor a failed Stat makes Lock
\* return; Lock returns an error only from the create-exclusive.
C8_OnlyCreateFails ==
    [][\A t \in Threads :
          /\ LockReturnsError(t) => pc[t] = "create"
          /\ pc[t] \in {"mkdir", "stat"} => pc'[t] # "idle"]_vars

\* C8 as amended: a failed Stat never makes Lock return, the loop goes on;
\* Lock returns an error only from MkdirAll or from the create-exclusive.
C8_StatIsTransient ==
    [][\A t \in Threads :
          /\ LockReturnsError(t) => pc[t] \in {"mkdir", "create"}
          /\ pc[t] = "stat" => pc'[t] \in {"stat", "mkdir", "remove", "sleep", "panicked"}]_vars

\* Lock has returned the error of MkdirAll: the caller's Waiter is still in
\* the table and nothing has signaled it.
C8_Witness ==
    \E t \in Threads : \E w \in WaiterIds :
        /\ pc[t] = "idle" /\ ret[t] = "lock_err"
        /\ waiters[w].owner = t
        /\ table[ProcOf(t)][key[t]] = w
        /\ waiters[w].sig = "none"

\* ---- C9

\* C9: when the os.Remove of Unlock has failed and left the marker, Unlock
\* does not return nil.
C9_RemoveErrorReturned ==
    [][\A t \in Threads :
          (pc[t] = "unlock_done" /\ pc'[t] = "idle" /\ waiters[fw[t]].rmfail)
          => ret'[t] # "unlock_ok"]_vars

\* ---- C10

\* The Remove of a stale marker succeeds.
LockRemoveStaleOk(t) == LockRemoveStale(t) /\ ~marker'[key[t]].exists

\* The scheduler runs every goroutine that can take a step and the clock
\* goes on; a filesystem fault is not permanent: a MkdirAll, a Stat or a
\* Remove that is retried again and again eventually succeeds.  Whether a
\* caller makes another call is up to the caller.
FairPaired ==
    /\ SpecPaired
    /\ WF_vars(Tick)
    /\ \A t \in Threads :
        /\ WF_vars(LockStep(t) \/ WaitStep(t) \/ UnlockStep(t))
        /\ SF_vars(LockMkdirOk(t))
        /\ SF_vars(LockStatStale(t))
        /\ SF_vars(LockRemoveStaleOk(t))

\* Thread t is in a Lock(k) that has not returned.
InLock(t) == pc[t] \in AcqPcs \cup PastWg \cup {"wait_start", "wait_wg"}

\* The marker of k is on disk and older than the staleness threshold.
MarkerIsStale(k) == marker[k].exists /\ now - marker[k].mtime > staleLockDuration

\* C10: every Lock(k) that is blocked while the marker of k is older than the
\* staleness threshold eventually returns (or its process ends), unless the
\* stale marker is released or reclaimed by another caller first.
C10_StalenessBoundsWait ==
    \A t \in Threads :
        (InLock(t) /\ MarkerIsStale(key[t]))
        ~> (pc[t] \in {"idle", "panicked"} \/ ~MarkerIsStale(key[t]))

\* ---- C11

\* C11: whenever the Lock of the caller that registered a Waiter returns an
\* error, the Waiter's completion has been signaled (its wait-group counter
\* is zero), so that no joiner stays blocked in wg.Wait().
C11_ErrorSignalsWaiter ==
    [][\A t \in Threads :
          LockReturnsError(t) => waiters'[fw[t]].wg = 0]_vars

\* ---- C12

\* C12: the wait-group counter of every Waiter is decremented at most once
\* and never goes below zero: it is 1 from wg.Add(1) until the one
\* wg.Done(), and 0 from then on.
C12_SignaledOnce ==
    \A w \in WaiterIds : waiters[w].wg \in {0, 1}

\* ---- C13

\* Thread t takes a step of UnlockAllObtained that reads the waiter table:
\* the range loop begins, yields an entry, or finds no more.
UAReadsTable(t) ==
    \/ pc[t] = "idle" /\ pc'[t] = "ua_range"
    \/ pc[t] = "ua_range" /\ pc'[t] \in {"ua_unlock", "idle", "panicked"}

\* Thread t is at a blocking wait: wg.Wait() or time.Sleep().
Blocked(t) == pc[t] \in {"wait_wg", "wait_sleep", "sleep"}

\* C13: every access to the waiter table is made under the table mutex, so
\* UnlockAllObtained never reads the table while another goroutine is inside
\* a section that holds the mutex; and no goroutine holds the mutex while it
\* is at a blocking wait.
C13_TableUnderMutex ==
    [][\A t \in Threads :
          /\ UAReadsTable(t) => mu[ProcOf(t)] = NoThread
          /\ Blocked(t)' => mu'[ProcOf(t)] # t]_vars

\* ---- C14

\* Thread t is in fw.Wait(), called from Lock.
InWait(t) == pc[t] \in {"wait_start", "wait_wg"} \cup PastWg

\* A step in which the Lock of joiner t returns.
JoinerReturns(t) == InWait(t) /\ pc'[t] = "idle"

\* What every step of a join wait does, whatever makes it return: it passes
\* wg.Wait() only when the Waiter's completion has been signaled, enters the
\* stat only while the time since the wait began is below the threshold,
\* sleeps only after a stat of a marker that is there and not stale, and
\* returns nil, never before the signal.
JoinWaitSteps(t) ==
    /\ (pc[t] = "wait_wg" /\ pc'[t] \notin {"wait_wg", "panicked"})
       => (waiters[fw[t]].wg = 0 /\ pc'[t] = "wait_loop")
    /\ (pc[t] = "wait_loop" /\ pc'[t] \notin {"wait_loop", "panicked"})
       => \/ pc'[t] = "wait_stat" /\ now - start[t] < staleLockDuration
          \/ pc'[t] = "idle" /\ now - start[t] >= staleLockDuration
    /\ (pc[t] = "wait_stat" /\ pc'[t] \notin {"wait_stat", "panicked"})
       => \/ pc'[t] = "idle"
          \/ pc'[t] = "wait_sleep" /\ marker[key[t]].exists
                /\ now - marker[key[t]].mtime <= staleLockDuration
    /\ (pc[t] = "wait_sleep" /\ pc'[t] \notin {"wait_sleep", "panicked"})
       => pc'[t] = "wait_loop"
    /\ JoinerReturns(t)
       => (ret'[t] = "lock_ok" /\ waiters[fw[t]].sig # "none")

StuckEntry(w) ==
    /\ waiters[w].sig = "error"
    /\ table[waiters[w].proc][waiters[w].key] = w

\* A step in which thread t calls Lock(k).
LockCalled(t, k) ==
    pc[t] = "idle" /\ pc'[t] \in {"wait_start", "mkdir"} /\ key'[t] = k

\* C15: when Lock returns the unexpected create error, its Waiter has been
\* signaled and is still the table entry of the key; such a Waiter stays the
\* entry as long as no Unlock of the key has deleted it, and as long as it
\* is, every Lock of that key in that process attaches to it and does not
\* enter the acquisition loop.
C15_StuckEntryJoins ==
    [][/\ \A t \in Threads :
             (pc[t] = "create" /\ LockReturnsError(t))
             => /\ waiters'[fw[t]].sig = "error"
                /\ table'[ProcOf(t)][key[t]] = fw[t]
       /\ \A w \in WaiterIds :
             StuckEntry(w) =>
                /\ table'[waiters[w].proc][waiters[w].key] # w
                   => \E u \in ThreadsOf(waiters[w].proc) :
                         pc[u] = "unlock_done" /\ fw[u] = w
                /\ \A t \in ThreadsOf(waiters[w].proc) :
                      LockCalled(t, waiters[w].key)
                      => (pc'[t] = "wait_start" /\ fw'[t] = w)]_vars

\* The caller whose Lock failed with the unexpected error calls Lock again
\* for the same key and is attached to the Waiter it left behind.
C15_Witness ==
    \E t \in Threads :
        /\ pc[t] = "wait_start"
        /\ waiters[fw[t]].owner = t
        /\ StuckEntry(fw[t])

\* ---- C16

\* The marker of key k is on disk and was created by a Lock of process p.
MarkerOf(p, k) ==
    marker[k].exists /\ \E w \in marker[k].by : waiters[w].proc = p

\* C16: the os.Remove of an Unlock (called directly or by UnlockAllObtained)
\* changes the marker of the key only when the marker was created by the
\* process that unlocks.
C16_UnlockRemovesOwnMarker ==
    [][\A t \in Threads :
          (pc[t] = "unlock_remove" /\ marker'[key[t]] # marker[key[t]])
          => MarkerOf(ProcOf(t), key[t])]_vars

\* ---- C17

\* C17: when the os.Remove of the acquisition loop removes a marker, the
\* marker it removes is older than the staleness threshold.
C17_ReclaimsOnlyStale ==
    [][\A t \in Threads :
          (pc[t] = "remove" /\ marker'[key[t]] # marker[key[t]])
          => MarkerIsStale(key[t])]_vars

\* ---- C18

\* C18: a process whose Lock created the marker that is on disk for k has an
\* entry for k in its waiter table.
C18_MarkerHasEntry ==
    \A k \in Keys : \A p \in Procs :
        MarkerOf(p, k) => LookupOk(p, k)

\* ---- C19

\* C19: an Unlock(k) called by a caller whose last call was a Lock(k) that
\* returned nil does not return the "not held" error.
C19_PairedUnlockFindsLock ==
    [][\A t \in Threads : \A k \in Keys :
          (Holding(t, k) /\ UnlockCalled(t, k)) => ret'[t] # "unlock_notheld"]_vars
====
